---- MODULE Spec2Model ----
(***************************************************************************)
(* Model of nextcloud_upload_daemon.py: the FileProcessor state machine    *)
(* (file_states, the lock, the threading.Timer callbacks) together with    *)
(* the event thread that feeds it.                                         *)
(*                                                                         *)
(* Time is in seconds.  A threading.Timer is an element of the bag         *)
(* `timers`; it may fire at any moment at or after its due time (the       *)
(* callback thread still has to win self.lock, which another callback may  *)
(* hold across a network call).  Every callback runs with self.lock held   *)
(* from its first to its last statement, so a callback is one step.        *)
(***************************************************************************)
EXTENDS Integers, FiniteSets, Sequences, Bags, TLC

\* ------------------------------------------------------------------ bounds
\* Clock resolution of the general specification: events, and the clock
\* readings of callbacks, fall on multiples of Granularity seconds.
Granularity == 300
\* Number of clock steps explored by the general specification.
MaxTicks == 3
MaxTime == MaxTicks * Granularity
\* Number of clock steps explored by the scripted (scenario) specification.
ScenarioTicks == 130

\* Number of watchdog events handed to the FileWatchers in a run of the
\* front-end specification.
MaxDelivered == 2

\* Largest number of requests.head probes one call of
\* _generate_unique_filename makes.
MaxProbes == 3

\* Number of clock steps explored with two files.
PathTicks == 2
PathsMaxTime == PathTicks * Granularity

\* Calls of upload_file and update_file per path explored under a system
\* clock that can be set back.
MaxSyncs == 1

\* ----------------------------------------------------------- program data
\* The literal 600.0 of the second deletion timer armed after a first upload.
FixedDeleteDelay == 600
\* load_config defaults.
DefaultUploadDelay == 10
DefaultDeleteDelay == 600

\* Clock resolution of the scripted specification: the scenarios place their
\* events and timers on multiples of half the upload delay.
ScenarioStep == DefaultUploadDelay \div 2
ScenarioMaxTime == ScenarioTicks * ScenarioStep

None == "None"
Paths == {"/w/a.txt"}
Dests == {"/remote", "/other"}
\* File names upload_file can return (the result of _generate_unique_filename).
Names == {"a.txt", "Copy_2-a.txt"}

\* Configured (upload_delay_seconds, delete_delay_seconds) explored by the
\* general specification: shorter than, equal to and longer than each other
\* and than the fixed 600 s timer.
UploadDelays == {Granularity, 2 * Granularity}
DeleteDelays == {Granularity, 2 * Granularity, 3 * Granularity}

UploadFn == "_upload_file_if_stable"
DeleteFn == "_delete_file_if_stable"

VARIABLES
    upload_delay,   \* FileProcessor.upload_delay
    delete_delay,   \* FileProcessor.delete_delay
    file_states,    \* FileProcessor.file_states: path -> state dict
    timers,         \* started threading.Timer objects that have not run yet
    now,            \* time.time()
    exists,         \* os.path.exists(path), per path
    evt,            \* event thread: the event that passed the exists test of
                    \* process_file_event and waits for self.lock
    scenario,       \* scripted specification: the scenario being played
    script,         \* scripted specification: times of the events still to come
    io,             \* the remote or local I/O performed by the latest step
    creates,        \* per path: upload_file calls so far
    replaces,       \* per path: update_file calls so far
    removes,        \* per path: successful os.remove calls so far
    failed,         \* per path: some upload_file, update_file or os.remove failed
    burstSyncs,     \* per path: upload_file/update_file calls since the latest
                    \* recorded activity event
    removeFailed,   \* per path: os.remove failed and no activity event was
                    \* recorded since
    directories,    \* config["directories"]: list of local/remote mappings
    queue,          \* event_queue: (event_type, file_path) entries
    seen,           \* the latest watchdog event handed to a FileWatcher
    delivered,      \* number of watchdog events handed to FileWatchers so far
    lock,           \* the timer callback that holds self.lock across a call
    inflight,       \* the upload_file, update_file or os.remove call in progress
    filename,       \* _generate_unique_filename: the file name asked for
    responses,      \* the outcomes of the requests.head probes, in call order
    unique_filename, \* the name _generate_unique_filename returned
    loop_counter,   \* _generate_unique_filename: the loop variable `counter`
    response,       \* _generate_unique_filename: outcome of the latest probe
    pending         \* per path: time of the latest recorded activity event
                    \* that no upload_file or update_file call has followed,
                    \* and whether an upload check was scheduled when it came

\* The event front end: configuration, FileWatcher and event queue.
front == <<directories, queue, seen, delivered>>

\* self.lock while a callback is inside a remote or local call.
locking == <<lock, inflight>>

\* One call of NextcloudUploader._generate_unique_filename.
naming == <<filename, responses, unique_filename, loop_counter, response>>

vars == <<upload_delay, delete_delay, file_states, timers, now, exists, evt,
          scenario, script, io, creates, replaces, removes, failed, burstSyncs,
          removeFailed, front, locking, naming, pending>>

\* The event thread is idle (blocked in event_queue.get).
NoEvent == [path |-> None, remote_path |-> None]

\* io: op is "create" (upload_file), "replace" (update_file), "remove"
\* (os.remove) or "none"; dir and name are the remote directory and file name
\* of the call, ok its outcome.
NoIO == [op |-> "none", path |-> None, dir |-> None, name |-> None, ok |-> TRUE]

Timer(fn, p, due) == [fn |-> fn, path |-> p, due |-> due]

\* No file name: _generate_unique_filename is not being called, or has not
\* returned yet.
NoName == << >>

\* No callback is inside a call: self.lock is free between steps.
NoTimer == Timer(None, None, 0)

\* No activity event waits for its upload.
NoPending == [at |-> -1, armed |-> FALSE]

\* No watchdog event has been handed to a FileWatcher yet.
NoWatch == [kind |-> None, src_path |-> None, is_directory |-> FALSE]

\* threading.Timer(interval, fn, [p]).start() executed at time `now`.
StartTimer(bag, interval, fn, p) == bag (+) SetToBag({Timer(fn, p, now + interval)})

\* Number of outstanding timers of callback fn for path p.
Outstanding(fn, p) ==
    LET ts == {t \in BagToSet(timers) : t.fn = fn /\ t.path = p}
        RECURSIVE Sum(_)
        Sum(S) == IF S = {} THEN 0
                  ELSE LET t == CHOOSE x \in S : TRUE
                       IN CopiesIn(t, timers) + Sum(S \ {t})
    IN Sum(ts)

Tracked(p) == p \in DOMAIN file_states

\* ------------------------------------------------- _generate_unique_filename
\* File names asked for, as their characters: with an extension, without
\* one, and with a leading dot only.
FileNames == { <<"a", ".", "t">>, <<"a">>, <<".", "r", "c">> }

\* Outcomes of a requests.head probe: the status code of the response, or an
\* exception raised by the request.
Responses == {"404", "200", "500", "raise"}

\* The probes that end the loop of _generate_unique_filename.
Final == {"404", "raise"}

\* os.path.splitext: the extension starts at the last dot, unless only dots
\* precede it.
splitext(p) ==
    LET dots == {i \in 1..Len(p) : p[i] = "."}
    IN IF dots = {} THEN <<p, << >> >>
       ELSE LET d == CHOOSE i \in dots : \A j \in dots : j <= i
            IN IF \E j \in 1..(d - 1) : p[j] # "."
               THEN <<SubSeq(p, 1, d - 1), SubSeq(p, d, Len(p))>>
               ELSE <<p, << >> >>

\* Lines 60-63: the name probed at a given counter.
TestFilename(name, counter) ==
    LET base_name == splitext(name)[1]
        extension == splitext(name)[2]
    IN IF counter = 1 THEN name
       ELSE <<"Copy_", ToString(counter), "-">> \o base_name \o extension

\* Lines 59-74: the loop from a given counter on; answers[counter] is the
\* outcome of the probe for that counter's name.
RECURSIVE Probe(_, _, _)
Probe(name, answers, counter) ==
    LET test_filename == TestFilename(name, counter)
    IN IF answers[counter] = "raise" THEN test_filename
       ELSE IF answers[counter] = "404" THEN test_filename
       ELSE Probe(name, answers, counter + 1)

\* NextcloudUploader._generate_unique_filename; the remote directory only
\* selects the URLs probed.
_generate_unique_filename(remote_path, name) == Probe(name, responses, 1)

\* upload_file calls _generate_unique_filename (line 129).
GenerateName ==
    /\ filename # NoName
    /\ unique_filename = NoName
    /\ \E d \in Dests :
          unique_filename' = _generate_unique_filename(d, filename)
    /\ io' = NoIO
    /\ UNCHANGED <<filename, responses, loop_counter, response>>
    /\ UNCHANGED <<front, locking, removeFailed, pending>>
    /\ UNCHANGED <<upload_delay, delete_delay, file_states, timers, now,
                   exists, evt, scenario, script, creates, replaces, removes,
                   failed, burstSyncs>>

\* Lines 59-74, one pass of `while True`: the name for the current counter is
\* probed with requests.head (which returns a response or raises within its
\* timeout); a 404 or an exception returns the name, any other status
\* increments the counter.  Counters above MaxProbes are not told apart, and
\* of the outcomes only the first MaxProbes are kept in `responses`.
ProbeOnce ==
    /\ filename # NoName
    /\ unique_filename = NoName
    /\ loop_counter >= 1
    /\ \E r \in Responses :
          /\ response' = r
          /\ responses' = IF Len(responses) < MaxProbes
                          THEN Append(responses, r) ELSE responses
          /\ IF r \in Final
             THEN /\ unique_filename' = TestFilename(filename, loop_counter)
                  /\ loop_counter' = loop_counter
             ELSE /\ unique_filename' = NoName
                  /\ loop_counter' = IF loop_counter <= MaxProbes
                                     THEN loop_counter + 1 ELSE loop_counter
    /\ io' = NoIO
    /\ UNCHANGED <<filename, front, locking, removeFailed, pending>>
    /\ UNCHANGED <<upload_delay, delete_delay, file_states, timers, now,
                   exists, evt, scenario, script, creates, replaces, removes,
                   failed, burstSyncs>>

\* ------------------------------------------------- process_file_event
\* Variant: every path is taken to exist.
FileExists_Always(p) == TRUE

\* Line 235: the test made before the lock is taken.
FileExists(p) == exists[p]

\* Variant: an event on a tracked path leaves last_modified alone.
Touched_NoRefresh(p, remote_path) ==
    IF ~Tracked(p)
    THEN [last_modified |-> now, remote_filename |-> None,
          remote_path |-> remote_path, upload_scheduled |-> FALSE]
    ELSE file_states[p]

\* Variant: an event on a tracked path also stores the event's remote_path.
Touched_Reroute(p, remote_path) ==
    IF ~Tracked(p)
    THEN [last_modified |-> now, remote_filename |-> None,
          remote_path |-> remote_path, upload_scheduled |-> FALSE]
    ELSE [file_states[p] EXCEPT !.last_modified = now,
                                !.remote_path = remote_path]

\* Variant: every event stores a fresh state dict.
Touched_Fresh(p, remote_path) ==
    [last_modified |-> now, remote_filename |-> None,
     remote_path |-> remote_path, upload_scheduled |-> FALSE]

\* Variant: an event on a tracked path also clears remote_filename.
Touched_Forget(p, remote_path) ==
    IF ~Tracked(p)
    THEN [last_modified |-> now, remote_filename |-> None,
          remote_path |-> remote_path, upload_scheduled |-> FALSE]
    ELSE [file_states[p] EXCEPT !.last_modified = now,
                                !.remote_filename = None]

\* Lines 242-250: create the state dict or refresh last_modified.
Touched(p, remote_path) ==
    IF ~Tracked(p)
    THEN [last_modified |-> now, remote_filename |-> None,
          remote_path |-> remote_path, upload_scheduled |-> FALSE]
    ELSE [file_states[p] EXCEPT !.last_modified = now]

\* Variant: every event schedules an upload check.
NeedsSchedule_Always(st) == TRUE

\* Variant: no event schedules an upload check.
NeedsSchedule_Never(st) == FALSE

\* Line 253: is an upload check to be scheduled?
NeedsSchedule(st) == ~st.upload_scheduled

\* Lines 238-255, run by the event thread once it holds the lock.
RecordActivity ==
    /\ UNCHANGED naming
    /\ pending' = [pending EXCEPT ![evt.path] =
                      [at |-> now,
                       armed |-> Tracked(evt.path)
                                 /\ file_states[evt.path].upload_scheduled]]
    /\ evt # NoEvent
    /\ lock = NoTimer
    /\ LET p == evt.path
           st == Touched(p, evt.remote_path)
       IN /\ file_states' = [q \in DOMAIN file_states \cup {p} |->
                               IF q = p
                               THEN [st EXCEPT !.upload_scheduled = TRUE]
                               ELSE file_states[q]]
          /\ timers' = IF NeedsSchedule(st)
                       THEN StartTimer(timers, upload_delay, UploadFn, p)
                       ELSE timers
          /\ burstSyncs' = [burstSyncs EXCEPT ![p] = 0]
          /\ removeFailed' = [removeFailed EXCEPT ![p] = FALSE]
    /\ evt' = NoEvent
    /\ io' = NoIO
    /\ UNCHANGED <<front, locking>>
    /\ UNCHANGED <<upload_delay, delete_delay, now, exists, scenario, script,
                   creates, replaces, removes, failed>>

\* Lines 476-486 and 235-236: the event thread takes an event for path p,
\* routed to remote_path, and tests that the file exists.
\* In a scripted run the events are those of the script, at their times.
BeginEvent(p, remote_path) ==
    /\ UNCHANGED <<naming, pending>>
    /\ evt = NoEvent
    /\ scenario # "none" => script # << >> /\ Head(script) = now
    /\ FileExists(p)
    /\ evt' = [path |-> p, remote_path |-> remote_path]
    /\ script' = IF script = << >> THEN script ELSE Tail(script)
    /\ io' = NoIO
    /\ UNCHANGED <<front, locking, removeFailed>>
    /\ UNCHANGED <<upload_delay, delete_delay, file_states, timers, now,
                   exists, scenario, creates, replaces, removes, failed,
                   burstSyncs>>

\* ------------------------------------------------- _upload_file_if_stable
\* Variants: no quiet window; a strict comparison.
UploadStable_Eager(st) == now - st.last_modified >= 0
UploadStable_Strict(st) == now - st.last_modified > upload_delay

\* Line 267.
UploadStable(st) == now - st.last_modified >= upload_delay

\* Timers started after a successful first upload (lines 277 and 279).
AfterCreate(bag, p) ==
    StartTimer(StartTimer(bag, delete_delay, DeleteFn, p),
               FixedDeleteDelay, DeleteFn, p)

\* Variant: no deletion timer after an update.
AfterUpdate_NoTimer(bag, p) == bag

\* Variant: the deletion timer after an update has the fixed delay.
AfterUpdate_Fixed(bag, p) == StartTimer(bag, FixedDeleteDelay, DeleteFn, p)

\* Timer started after update_file (line 284).
AfterUpdate(bag, p) == StartTimer(bag, delete_delay, DeleteFn, p)

\* Variant: every upload is treated as the first.
IsFirstUpload_Always(st) == TRUE

\* Line 271: first upload or update?
IsFirstUpload(st) == st.remote_filename = None

\* The outcomes of upload_file: a file name, or None on failure.
UploadResults == Names \cup {None}

UploadCheck(t) ==
    /\ UNCHANGED naming
    /\ t.fn = UploadFn
    /\ t.due <= now
    /\ lock \in {NoTimer, t}
    /\ LET p == t.path
           rest == timers (-) SetToBag({t})
       IN IF ~Tracked(p)
          THEN /\ timers' = rest
               /\ io' = NoIO
               /\ UNCHANGED <<file_states, creates, replaces, failed, burstSyncs>>
          ELSE LET st == file_states[p] IN
            IF ~UploadStable(st)
            THEN /\ timers' = StartTimer(rest, upload_delay, UploadFn, p)
                 /\ io' = NoIO
                 /\ UNCHANGED <<file_states, creates, replaces, failed, burstSyncs>>
            ELSE IF ~FileExists(p)
            THEN /\ timers' = rest
                 /\ file_states' = [file_states EXCEPT ![p].upload_scheduled = FALSE]
                 /\ io' = NoIO
                 /\ UNCHANGED <<creates, replaces, failed, burstSyncs>>
            ELSE IF IsFirstUpload(st)
            THEN \E r \in UploadResults :
                 /\ file_states' = [file_states EXCEPT
                        ![p].remote_filename = r,
                        ![p].upload_scheduled = FALSE]
                 /\ timers' = IF r # None THEN AfterCreate(rest, p) ELSE rest
                 /\ io' = [op |-> "create", path |-> p, dir |-> st.remote_path,
                           name |-> r, ok |-> (r # None)]
                 /\ creates' = [creates EXCEPT ![p] = @ + 1]
                 /\ burstSyncs' = [burstSyncs EXCEPT ![p] = @ + 1]
                 /\ failed' = [failed EXCEPT ![p] = @ \/ r = None]
                 /\ UNCHANGED replaces
            ELSE \E ok \in BOOLEAN :
                 /\ file_states' = [file_states EXCEPT ![p].upload_scheduled = FALSE]
                 /\ timers' = AfterUpdate(rest, p)
                 /\ io' = [op |-> "replace", path |-> p, dir |-> st.remote_path,
                           name |-> st.remote_filename, ok |-> ok]
                 /\ replaces' = [replaces EXCEPT ![p] = @ + 1]
                 /\ burstSyncs' = [burstSyncs EXCEPT ![p] = @ + 1]
                 /\ failed' = [failed EXCEPT ![p] = @ \/ ~ok]
                 /\ UNCHANGED creates
    /\ pending' = IF io'.op \in {"create", "replace"}
                  THEN [pending EXCEPT ![t.path] = NoPending]
                  ELSE pending
    /\ lock' = NoTimer
    /\ inflight' = NoIO
    /\ UNCHANGED <<front, removeFailed>>
    /\ UNCHANGED <<upload_delay, delete_delay, now, exists, evt, scenario, script,
                   removes>>

\* ------------------------------------------------- _delete_file_if_stable
\* Variant: the quiet period is not tested.
DeleteStable_NoQuiet(p) ==
    /\ file_states[p].remote_filename # None
    /\ FileExists(p)

\* Lines 301-305.
DeleteStable(p) ==
    /\ now - file_states[p].last_modified >= delete_delay
    /\ file_states[p].remote_filename # None
    /\ FileExists(p)

\* Variant: no record counts as uploaded.
WasUploaded_Never(st) == FALSE

\* Variant: every record counts as uploaded.
WasUploaded_Always(st) == TRUE

\* Line 313.
WasUploaded(st) == st.remote_filename # None

\* Variant: a successful os.remove drops every record.
AfterRemove_Clear(p, ok) == IF ok THEN << >> ELSE file_states

\* Variant: the record is dropped whether or not os.remove succeeded.
AfterRemove_Always(p, ok) ==
    [q \in DOMAIN file_states \ {p} |-> file_states[q]]

\* Lines 307-312: `del self.file_states[file_path]` runs only when os.remove
\* did not raise.
AfterRemove(p, ok) ==
    IF ok THEN [q \in DOMAIN file_states \ {p} |-> file_states[q]]
    ELSE file_states

DeleteCheck(t) ==
    /\ UNCHANGED <<naming, pending>>
    /\ t.fn = DeleteFn
    /\ t.due <= now
    /\ lock \in {NoTimer, t}
    /\ LET p == t.path
           rest == timers (-) SetToBag({t})
       IN IF ~Tracked(p)
          THEN /\ timers' = rest
               /\ io' = NoIO
               /\ UNCHANGED <<file_states, exists, removes, failed, removeFailed>>
          ELSE IF DeleteStable(p)
          THEN \E ok \in BOOLEAN :
               /\ timers' = rest
               /\ io' = [op |-> "remove", path |-> p, dir |-> None,
                         name |-> None, ok |-> ok]
               /\ failed' = [failed EXCEPT ![p] = @ \/ ~ok]
               /\ removeFailed' = [removeFailed EXCEPT ![p] = ~ok]
               /\ file_states' = AfterRemove(p, ok)
               /\ IF ok
                  THEN /\ exists' = [exists EXCEPT ![p] = FALSE]
                       /\ removes' = [removes EXCEPT ![p] = @ + 1]
                  ELSE UNCHANGED <<exists, removes>>
          ELSE /\ timers' = IF WasUploaded(file_states[p])
                            THEN StartTimer(rest, delete_delay, DeleteFn, p)
                            ELSE rest
               /\ io' = NoIO
               /\ UNCHANGED <<file_states, exists, removes, failed, removeFailed>>
    /\ lock' = NoTimer
    /\ inflight' = NoIO
    /\ UNCHANGED front
    /\ UNCHANGED <<upload_delay, delete_delay, now, evt, scenario, script,
                   creates, replaces, burstSyncs>>

\* ------------------------------------------------- FileWatcher, routing
\* Paths of the front-end specification: a watched directory, a file in it,
\* a file in a watched subdirectory, and a file in a sibling directory whose
\* name starts with the name of the watched one.
FrontPaths == {"/w", "/w/a", "/w/s/b", "/wx/a"}

\* The characters of the path strings used as event paths and local roots.
Chars(str) ==
    CASE str = "/w"     -> <<"/", "w">>
      [] str = "/w/"    -> <<"/", "w", "/">>
      [] str = "/w/s"   -> <<"/", "w", "/", "s">>
      [] str = "/w/a"   -> <<"/", "w", "/", "a">>
      [] str = "/w/s/b" -> <<"/", "w", "/", "s", "/", "b">>
      [] str = "/wx/a"  -> <<"/", "w", "x", "/", "a">>

\* os.sep
Sep == "/"

\* config["directories"] of the front-end specification: one root, the same
\* root written with a trailing separator, only the subdirectory, and the
\* root and its subdirectory in both orders.
Mapping(local, remote) == [local |-> local, remote |-> remote]
DirConfigs ==
    { << Mapping("/w", "/remote") >>,
      << Mapping("/w/", "/remote") >>,
      << Mapping("/w/s", "/other") >>,
      << Mapping("/w", "/remote"), Mapping("/w/s", "/other") >>,
      << Mapping("/w/s", "/other"), Mapping("/w", "/remote") >> }

\* The watchdog events handed to on_modified and on_created.
WatchEvents == [src_path : FrontPaths, is_directory : BOOLEAN]

\* str.startswith
StartsWith(s, prefix) ==
    /\ Len(prefix) <= Len(s)
    /\ SubSeq(s, 1, Len(prefix)) = prefix

\* str.split(os.sep): the pieces between separators.
RECURSIVE Components(_)
Components(s) ==
    IF \E i \in 1..Len(s) : s[i] = Sep
    THEN LET i == CHOOSE k \in 1..Len(s) :
                     s[k] = Sep /\ \A j \in 1..(k - 1) : s[j] # Sep
         IN <<SubSeq(s, 1, i - 1)>> \o Components(SubSeq(s, i + 1, Len(s)))
    ELSE <<s>>

\* posixpath.normpath on the components of an absolute path: empty and "."
\* components are dropped, ".." removes the component before it.
RECURSIVE Resolve(_, _)
Resolve(comps, acc) ==
    IF comps = << >> THEN acc
    ELSE LET c == Head(comps)
         IN IF c = << >> \/ c = <<".">>
            THEN Resolve(Tail(comps), acc)
            ELSE IF c = <<".", ".">>
            THEN Resolve(Tail(comps),
                         IF acc = << >> THEN acc
                         ELSE SubSeq(acc, 1, Len(acc) - 1))
            ELSE Resolve(Tail(comps), Append(acc, c))

RECURSIVE Join(_)
Join(comps) ==
    IF comps = << >> THEN << >>
    ELSE <<Sep>> \o Head(comps) \o Join(Tail(comps))

\* os.path.abspath of an absolute path (lines 480 and 481).
abspath(path) ==
    LET joined == Join(Resolve(Components(Chars(path)), << >>))
    IN IF joined = << >> THEN <<Sep>> ELSE joined

\* Variant: the prefix test without the separator.
Matches_NoSep(directory_config, file_path) ==
    LET local_dir == abspath(directory_config.local)
        file_abs_path == abspath(file_path)
    IN StartsWith(file_abs_path, local_dir)

\* Line 483.
Matches(directory_config, file_path) ==
    LET local_dir == abspath(directory_config.local)
        file_abs_path == abspath(file_path)
    IN \/ StartsWith(file_abs_path, local_dir \o <<Sep>>)
       \/ file_abs_path = local_dir

\* Variant: the mapping with the longest matching root wins.
Route_Longest(dirs, file_path) ==
    LET ms == {i \in DOMAIN dirs : Matches(dirs[i], file_path)}
    IN IF ms = {} THEN None
       ELSE dirs[CHOOSE i \in ms : \A j \in ms :
                    Len(abspath(dirs[j].local)) <= Len(abspath(dirs[i].local))].remote

\* Lines 479-486: the remote directory of the first mapping, in the order of
\* the configuration, whose root the path equals or lies under; None when the
\* loop ends without a match.
RECURSIVE Route(_, _)
Route(dirs, file_path) ==
    IF dirs = << >> THEN None
    ELSE IF Matches(Head(dirs), file_path) THEN Head(dirs).remote
    ELSE Route(Tail(dirs), file_path)

\* Variant: directory events are enqueued too.
Enqueues_All(event) == TRUE

\* Lines 199 and 204.
Enqueues(event) == ~event.is_directory

\* FileWatcher.on_modified / on_created, called by an observer thread.
Handle(kind, event) ==
    /\ UNCHANGED <<naming, pending>>
    /\ delivered < MaxDelivered
    /\ delivered' = delivered + 1
    /\ seen' = [kind |-> kind, src_path |-> event.src_path,
                is_directory |-> event.is_directory]
    /\ queue' = IF Enqueues(event)
                THEN Append(queue, <<kind, event.src_path>>)
                ELSE queue
    /\ UNCHANGED <<directories, locking, removeFailed>>
    /\ UNCHANGED <<upload_delay, delete_delay, file_states, timers, now,
                   exists, evt, scenario, script, io, creates, replaces,
                   removes, failed, burstSyncs>>

on_modified(event) == Handle("modified", event)

on_created(event) == Handle("created", event)

\* Variant: the exists test always succeeds.
Present_Always(file_path) == TRUE

\* Line 235, as made by process_file_event for a routed event.
Present(file_path) == FileExists(file_path)

\* One turn of the loop of process_events (lines 476-486) up to the lock of
\* process_file_event (lines 235-236): take an event from the queue, route
\* it, test that the file exists.  RecordActivity is the rest of the turn.
process_events ==
    /\ UNCHANGED <<naming, pending>>
    /\ queue # << >>
    /\ evt = NoEvent
    /\ LET file_path == Head(queue)[2]
           remote_dir == Route(directories, file_path)
       IN evt' = IF remote_dir # None /\ Present(file_path)
                 THEN [path |-> file_path, remote_path |-> remote_dir]
                 ELSE NoEvent
    /\ queue' = Tail(queue)
    /\ io' = NoIO
    /\ UNCHANGED <<directories, seen, delivered, locking, removeFailed>>
    /\ UNCHANGED <<upload_delay, delete_delay, file_states, timers, now,
                   exists, scenario, script, creates, replaces, removes,
                   failed, burstSyncs>>

\* ------------------------------------------------- self.lock during a call
\* The call the callback of timer t makes once it holds the lock: upload_file
\* (line 273), update_file (line 282), os.remove (line 308), or none.
CallOf(t) ==
    IF ~Tracked(t.path) THEN NoIO
    ELSE LET p == t.path
             st == file_states[p]
         IN IF t.fn = UploadFn
            THEN IF UploadStable(st) /\ FileExists(p)
                 THEN [op |-> IF IsFirstUpload(st) THEN "create" ELSE "replace",
                       path |-> p, dir |-> st.remote_path,
                       name |-> st.remote_filename, ok |-> TRUE]
                 ELSE NoIO
            ELSE IF DeleteStable(p)
                 THEN [op |-> "remove", path |-> p, dir |-> None,
                       name |-> None, ok |-> TRUE]
                 ELSE NoIO

\* Variant: the lock is released before the call is made.
Holder_Released(t) == NoTimer

\* `with self.lock:` (lines 259 and 293) encloses the call: the callback of
\* timer t still holds the lock while the call runs.
Holder(t) == t

\* The callback of timer t has taken the lock, made its tests and is now
\* inside upload_file, update_file or os.remove.  UploadCheck(t) or
\* DeleteCheck(t) is the return of that call and the rest of the callback.
EnterCall(t) ==
    /\ UNCHANGED <<naming, pending>>
    /\ lock = NoTimer
    /\ t.due <= now
    /\ CallOf(t) # NoIO
    /\ lock' = Holder(t)
    /\ inflight' = CallOf(t)
    /\ io' = NoIO
    /\ UNCHANGED <<front, removeFailed>>
    /\ UNCHANGED <<upload_delay, delete_delay, file_states, timers, now,
                   exists, evt, scenario, script, creates, replaces, removes,
                   failed, burstSyncs>>

\* ------------------------------------------------------------ environment
\* Something outside the daemon writes the file (creating it if needed).
WriteFile(p) ==
    /\ UNCHANGED <<naming, pending>>
    /\ ~exists[p]
    /\ exists' = [exists EXCEPT ![p] = TRUE]
    /\ io' = NoIO
    /\ UNCHANGED <<front, locking, removeFailed>>
    /\ UNCHANGED <<upload_delay, delete_delay, file_states, timers, now, evt,
                   scenario, script, creates, replaces, removes, failed,
                   burstSyncs>>

\* Something outside the daemon removes the file.
VanishFile(p) ==
    /\ UNCHANGED <<naming, pending>>
    /\ exists[p]
    /\ exists' = [exists EXCEPT ![p] = FALSE]
    /\ io' = NoIO
    /\ UNCHANGED <<front, locking, removeFailed>>
    /\ UNCHANGED <<upload_delay, delete_delay, file_states, timers, now, evt,
                   scenario, script, creates, replaces, removes, failed,
                   burstSyncs>>

\* The clock advances; timers that are due need not have run yet.
Tick ==
    /\ UNCHANGED <<naming, pending>>
    /\ now + Granularity <= MaxTime
    /\ now' = now + Granularity
    /\ io' = NoIO
    /\ UNCHANGED <<front, locking, removeFailed>>
    /\ UNCHANGED <<upload_delay, delete_delay, file_states, timers, exists, evt,
                   scenario, script, creates, replaces, removes, failed,
                   burstSyncs>>

\* time.time() is the system clock: it lowers its reading when the system
\* time is set back (an administrator, a time synchronisation step).
SetBack ==
    /\ UNCHANGED <<naming, pending>>
    /\ now >= Granularity
    /\ now' = now - Granularity
    /\ io' = NoIO
    /\ UNCHANGED <<front, locking, removeFailed>>
    /\ UNCHANGED <<upload_delay, delete_delay, file_states, timers, exists, evt,
                   scenario, script, creates, replaces, removes, failed,
                   burstSyncs>>

\* Time passes, seen from the present: `now` keeps its value and every due
\* time and every recorded time moves Granularity seconds into the past.
\* The code compares times only through differences with time.time(), and
\* a recorded time older than every configured delay passes every test, so
\* recorded times are kept no further back than Oldest.
Oldest == now - MaxTime
Earlier(time) == IF time - Granularity < Oldest THEN Oldest ELSE time - Granularity

Elapse ==
    /\ UNCHANGED naming
    /\ timers' = LET ts == BagToSet(timers)
                 IN [x \in {Timer(t.fn, t.path, t.due - Granularity) : t \in ts}
                       |-> CopiesIn(Timer(x.fn, x.path, x.due + Granularity), timers)]
    /\ file_states' = [q \in DOMAIN file_states |->
                          [file_states[q] EXCEPT !.last_modified = Earlier(@)]]
    /\ pending' = [q \in DOMAIN pending |->
                      IF pending[q] = NoPending THEN NoPending
                      ELSE [pending[q] EXCEPT !.at = Earlier(@)]]
    /\ io' = NoIO
    /\ UNCHANGED <<front, locking, removeFailed>>
    /\ UNCHANGED <<upload_delay, delete_delay, now, exists, evt, scenario,
                   script, creates, replaces, removes, failed, burstSyncs>>

\* Scripted runs: the clock advances only when nothing is left to do at the
\* current time, so every timer runs at its due time.
NothingDue ==
    /\ \A t \in BagToSet(timers) : t.due > now
    /\ evt = NoEvent
    /\ script # << >> => Head(script) > now

ScenarioTick ==
    /\ UNCHANGED <<naming, pending>>
    /\ NothingDue
    /\ now + ScenarioStep <= ScenarioMaxTime
    /\ now' = now + ScenarioStep
    /\ io' = NoIO
    /\ UNCHANGED <<front, locking, removeFailed>>
    /\ UNCHANGED <<upload_delay, delete_delay, file_states, timers, exists, evt,
                   scenario, script, creates, replaces, removes, failed,
                   burstSyncs>>

Zero == [p \in Paths |-> 0]

Init ==
    /\ upload_delay \in UploadDelays
    /\ delete_delay \in DeleteDelays
    /\ file_states = << >>
    /\ timers = EmptyBag
    /\ now = 0
    /\ exists \in [Paths -> BOOLEAN]
    /\ evt = NoEvent
    /\ scenario = "none"
    /\ script = << >>
    /\ io = NoIO
    /\ creates = Zero
    /\ replaces = Zero
    /\ removes = Zero
    /\ failed = [p \in Paths |-> FALSE]
    /\ burstSyncs = Zero
    /\ removeFailed = [p \in Paths |-> FALSE]
    /\ directories = << >>
    /\ queue = << >>
    /\ seen = NoWatch
    /\ delivered = 0
    /\ lock = NoTimer
    /\ inflight = NoIO
    /\ filename = NoName /\ responses = << >> /\ unique_filename = NoName
    /\ loop_counter = 0 /\ response = None
    /\ pending = [p \in Paths |-> NoPending]

Next ==
    \/ \E p \in Paths, d \in Dests : BeginEvent(p, d)
    \/ RecordActivity
    \/ \E t \in BagToSet(timers) : UploadCheck(t)
    \/ \E t \in BagToSet(timers) : DeleteCheck(t)
    \/ \E p \in Paths : WriteFile(p)
    \/ \E p \in Paths : VanishFile(p)
    \/ Tick

Spec == Init /\ [][Next]_vars

\* ------------------------------------------------------- punctual timers
\* The daemon when every timer callback runs at its due time: the clock
\* advances only when no timer is due and no event waits.  The file stays on
\* disk unless the daemon removes it.
NextPunctual ==
    \/ \E p \in Paths, d \in Dests : BeginEvent(p, d)
    \/ RecordActivity
    \/ \E t \in BagToSet(timers) : UploadCheck(t)
    \/ \E t \in BagToSet(timers) : DeleteCheck(t)
    \/ NothingDue /\ Tick

SpecPunctual == Init /\ [][NextPunctual]_vars

\* The same with fair scheduling: the event thread gets the lock when it
\* waits for it, a started threading.Timer runs its callback, time passes.
SpecFair ==
    /\ SpecPunctual
    /\ WF_vars(RecordActivity)
    /\ WF_vars(\E t \in BagToSet(timers) : UploadCheck(t))
    /\ WF_vars(\E t \in BagToSet(timers) : DeleteCheck(t))
    /\ WF_vars(NothingDue /\ Tick)

\* ------------------------------------------------------- the system clock
\* The daemon under a system clock that can be set back, for a file that
\* stays on disk unless the daemon removes it, up to MaxSyncs calls of
\* upload_file and update_file per path.
FewSyncs == \A p \in Paths : creates'[p] + replaces'[p] <= MaxSyncs

NextClock ==
    \/ \E p \in Paths, d \in Dests : BeginEvent(p, d)
    \/ RecordActivity
    \/ \E t \in BagToSet(timers) : UploadCheck(t) /\ FewSyncs
    \/ \E t \in BagToSet(timers) : DeleteCheck(t)
    \/ Tick
    \/ SetBack

SpecClock == Init /\ [][NextClock]_vars

\* ------------------------------------------------------- unbounded time
\* The daemon over unbounded time, with timers running at their due time,
\* fair scheduling, a file that something else may remove, and up to MaxSyncs
\* calls of upload_file and update_file per path.
NextElapsed ==
    \/ \E p \in Paths, d \in Dests : BeginEvent(p, d)
    \/ RecordActivity
    \/ \E t \in BagToSet(timers) : UploadCheck(t) /\ FewSyncs
    \/ \E t \in BagToSet(timers) : DeleteCheck(t)
    \/ \E p \in Paths : VanishFile(p)
    \/ NothingDue /\ Elapse

SpecElapsed ==
    /\ Init /\ [][NextElapsed]_vars
    /\ WF_vars(RecordActivity)
    /\ WF_vars(\E t \in BagToSet(timers) : UploadCheck(t) /\ FewSyncs)
    /\ WF_vars(\E t \in BagToSet(timers) : DeleteCheck(t))
    /\ WF_vars(NothingDue /\ Elapse)

\* --------------------------------------------------- calls under the lock
\* The callbacks split at their remote or local call: a callback that makes a
\* call takes two steps, EnterCall and then its UploadCheck or DeleteCheck.
\* The file is left alone by the environment while the daemon works on it.
NextLock ==
    \/ \E p \in Paths, d \in Dests : BeginEvent(p, d)
    \/ RecordActivity
    \/ \E t \in BagToSet(timers) : EnterCall(t)
    \/ \E t \in BagToSet(timers) :
          (CallOf(t) # NoIO => inflight # NoIO) /\ UploadCheck(t)
    \/ \E t \in BagToSet(timers) :
          (CallOf(t) # NoIO => inflight # NoIO) /\ DeleteCheck(t)
    \/ Tick

SpecLock == Init /\ [][NextLock]_vars

\* ------------------------------------------------------------- front end
\* The FileWatchers, the event queue and the event thread, for each of the
\* configurations, with at most one of the files missing on disk.
InitFront ==
    /\ upload_delay = DefaultUploadDelay
    /\ delete_delay = DefaultDeleteDelay
    /\ file_states = << >>
    /\ timers = EmptyBag
    /\ now = 0
    /\ \E gone \in {{}} \cup {{p} : p \in FrontPaths} :
          exists = [p \in FrontPaths |-> p \notin gone]
    /\ evt = NoEvent
    /\ scenario = "none"
    /\ script = << >>
    /\ io = NoIO
    /\ creates = [p \in FrontPaths |-> 0]
    /\ replaces = [p \in FrontPaths |-> 0]
    /\ removes = [p \in FrontPaths |-> 0]
    /\ failed = [p \in FrontPaths |-> FALSE]
    /\ burstSyncs = [p \in FrontPaths |-> 0]
    /\ removeFailed = [p \in FrontPaths |-> FALSE]
    /\ directories \in DirConfigs
    /\ queue = << >>
    /\ seen = NoWatch
    /\ delivered = 0
    /\ lock = NoTimer
    /\ inflight = NoIO
    /\ filename = NoName /\ responses = << >> /\ unique_filename = NoName
    /\ loop_counter = 0 /\ response = None
    /\ pending = [p \in FrontPaths |-> NoPending]

NextFront ==
    \/ \E event \in WatchEvents : on_modified(event)
    \/ \E event \in WatchEvents : on_created(event)
    \/ process_events
    \/ RecordActivity

SpecFront == InitFront /\ [][NextFront]_vars

\* ----------------------------------------------------------- remote names
\* _generate_unique_filename applied to each file name under every sequence
\* of probe outcomes of at most MaxProbes probes that lets the loop end.
InitNames ==
    /\ upload_delay = DefaultUploadDelay
    /\ delete_delay = DefaultDeleteDelay
    /\ file_states = << >>
    /\ timers = EmptyBag
    /\ now = 0
    /\ exists = [p \in Paths |-> TRUE]
    /\ evt = NoEvent
    /\ scenario = "none"
    /\ script = << >>
    /\ io = NoIO
    /\ creates = Zero
    /\ replaces = Zero
    /\ removes = Zero
    /\ failed = [p \in Paths |-> FALSE]
    /\ burstSyncs = Zero
    /\ removeFailed = [p \in Paths |-> FALSE]
    /\ directories = << >>
    /\ queue = << >>
    /\ seen = NoWatch
    /\ delivered = 0
    /\ lock = NoTimer
    /\ inflight = NoIO
    /\ filename \in FileNames
    /\ \E n \in 1..MaxProbes :
          /\ responses \in [1..n -> Responses]
          /\ responses[n] \in Final
    /\ unique_filename = NoName
    /\ loop_counter = 0 /\ response = None
    /\ pending = [p \in Paths |-> NoPending]

NextNames == GenerateName

SpecNames == InitNames /\ [][NextNames]_vars

\* One call of _generate_unique_filename, probe by probe, against a server
\* that may answer each probe in any way; the loop keeps running.
InitProbe ==
    /\ upload_delay = DefaultUploadDelay
    /\ delete_delay = DefaultDeleteDelay
    /\ file_states = << >>
    /\ timers = EmptyBag
    /\ now = 0
    /\ exists = [p \in Paths |-> TRUE]
    /\ evt = NoEvent
    /\ scenario = "none"
    /\ script = << >>
    /\ io = NoIO
    /\ creates = Zero
    /\ replaces = Zero
    /\ removes = Zero
    /\ failed = [p \in Paths |-> FALSE]
    /\ burstSyncs = Zero
    /\ removeFailed = [p \in Paths |-> FALSE]
    /\ directories = << >>
    /\ queue = << >>
    /\ seen = NoWatch
    /\ delivered = 0
    /\ lock = NoTimer
    /\ inflight = NoIO
    /\ filename \in FileNames
    /\ responses = << >>
    /\ unique_filename = NoName
    /\ loop_counter = 1 /\ response = None
    /\ pending = [p \in Paths |-> NoPending]

NextProbe == ProbeOnce

SpecProbe == InitProbe /\ [][NextProbe]_vars /\ WF_vars(ProbeOnce)

\* ------------------------------------------------------- scripted scenarios
\* Scenarios A, B and C of the design: default delays, the listed event
\* times, the file stays on disk unless the daemon removes it.
Scenarios == {"A", "B", "C"}
ScriptOf(sc) == CASE sc = "A" -> << 0 >>
                  [] sc = "B" -> << 0, 5 >>
                  [] sc = "C" -> << 0, 20 >>

InitScenario ==
    /\ upload_delay = DefaultUploadDelay
    /\ delete_delay = DefaultDeleteDelay
    /\ file_states = << >>
    /\ timers = EmptyBag
    /\ now = 0
    /\ exists = [p \in Paths |-> TRUE]
    /\ evt = NoEvent
    /\ scenario \in Scenarios
    /\ script = ScriptOf(scenario)
    /\ io = NoIO
    /\ creates = Zero
    /\ replaces = Zero
    /\ removes = Zero
    /\ failed = [p \in Paths |-> FALSE]
    /\ burstSyncs = Zero
    /\ removeFailed = [p \in Paths |-> FALSE]
    /\ directories = << >>
    /\ queue = << >>
    /\ seen = NoWatch
    /\ delivered = 0
    /\ lock = NoTimer
    /\ inflight = NoIO
    /\ filename = NoName /\ responses = << >> /\ unique_filename = NoName
    /\ loop_counter = 0 /\ response = None
    /\ pending = [p \in Paths |-> NoPending]

NextScenario ==
    \/ \E p \in Paths, d \in Dests : BeginEvent(p, d)
    \/ RecordActivity
    \/ \E t \in BagToSet(timers) : UploadCheck(t)
    \/ \E t \in BagToSet(timers) : DeleteCheck(t)
    \/ ScenarioTick

SpecScenario == InitScenario /\ [][NextScenario]_vars

\* ------------------------------------------------------------ several files
\* Two files of one watched directory, each with its own events, upload
\* checks and deletion checks, every timer running at its due time.
WatchedPaths == {"/w/a.txt", "/w/b.txt"}

\* The remote directory holds no file of the same name: upload_file keeps
\* the local name when it succeeds.
NoClash == io'.name # "Copy_2-a.txt"

InitPaths ==
    /\ upload_delay = Granularity
    /\ delete_delay = Granularity
    /\ file_states = << >>
    /\ timers = EmptyBag
    /\ now = 0
    /\ exists = [p \in WatchedPaths |-> TRUE]
    /\ evt = NoEvent
    /\ scenario = "none"
    /\ script = << >>
    /\ io = NoIO
    /\ creates = [p \in WatchedPaths |-> 0]
    /\ replaces = [p \in WatchedPaths |-> 0]
    /\ removes = [p \in WatchedPaths |-> 0]
    /\ failed = [p \in WatchedPaths |-> FALSE]
    /\ burstSyncs = [p \in WatchedPaths |-> 0]
    /\ removeFailed = [p \in WatchedPaths |-> FALSE]
    /\ directories = << >>
    /\ queue = << >>
    /\ seen = NoWatch
    /\ delivered = 0
    /\ lock = NoTimer
    /\ inflight = NoIO
    /\ filename = NoName /\ responses = << >> /\ unique_filename = NoName
    /\ loop_counter = 0 /\ response = None
    /\ pending = [p \in WatchedPaths |-> NoPending]

NextPaths ==
    \/ \E p \in WatchedPaths : BeginEvent(p, "/remote")
    \/ RecordActivity
    \/ \E t \in BagToSet(timers) : UploadCheck(t) /\ NoClash
    \/ \E t \in BagToSet(timers) : DeleteCheck(t)
    \/ NothingDue /\ now < PathsMaxTime /\ Tick

SpecPaths == InitPaths /\ [][NextPaths]_vars

TypeOK ==
    /\ DOMAIN file_states \subseteq DOMAIN exists
    /\ IsABag(timers)

\* ------------------------------------------------------------- properties
Syncs == {"create", "replace"}

\* A remote name has been assigned for path p at some time: its record holds
\* one, or the record was removed (which only a deletion of an uploaded file
\* does).
HadRemoteName(p) ==
    \/ Tracked(p) /\ file_states[p].remote_filename # None
    \/ removes[p] > 0

\* C1 (as claimed): a path never has more than one outstanding upload-check
\* timer.
C1_AtMostOneUploadTimer ==
    \A p \in Paths : Outstanding(UploadFn, p) <= 1

\* C2: a deletion check deletes the local file only when the record's remote
\* name is set and the path has been quiet for delete_delay seconds at the
\* fire time, whichever timer (configured or fixed delay) ran the check.
C2_DeleteOnlyQuietAndSynced ==
    [][io'.op = "remove" /\ io'.ok =>
         /\ Tracked(io'.path)
         /\ file_states[io'.path].remote_filename # None
         /\ now - file_states[io'.path].last_modified >= delete_delay]_vars

C2_Witness == io.op = "remove" /\ io.ok /\ ~exists[io.path]

\* C3 (as claimed): a deletion check never deletes the local file while
\* upload_scheduled is set for the path.
C3_NoDeleteWhileUploadArmed ==
    [][io'.op = "remove" /\ io'.ok =>
         ~file_states[io'.path].upload_scheduled]_vars

\* C4: upload_file and update_file are called by an upload check only when
\* the path has been quiet for upload_delay seconds at the fire time.
C4_NoUploadBeforeQuiet ==
    [][io'.op \in Syncs =>
         /\ Tracked(io'.path)
         /\ now - file_states[io'.path].last_modified >= upload_delay]_vars

C4_Witness == io.op = "replace" /\ creates[io.path] > 0

\* C5 (as claimed, its at-most-once half): after the latest activity event of
\* a path at most one sync action (create or replace) is dispatched.
C5_OncePerBurst ==
    \A p \in Paths : burstSyncs[p] <= 1

\* C6 (as claimed): every create call made before the first successful
\* upload of a path is the first create call for that path.
C6_OneCreateBeforeFirstUpload ==
    [][io'.op = "create" /\ ~HadRemoteName(io'.path) =>
         creates[io'.path] = 0]_vars

\* C6 (amended): every create call made before the first successful upload
\* of a path is the first sync action since the latest activity event, so a
\* further create needs a failed create and a new activity event.
C6_OneCreatePerBurstBeforeFirstUpload ==
    [][io'.op = "create" /\ ~HadRemoteName(io'.path) =>
         burstSyncs[io'.path] = 0]_vars

C6_Witness ==
    io.op = "create" /\ creates[io.path] >= 2 /\ removes[io.path] = 0
    /\ failed[io.path]

\* C7 (as claimed): once a remote name was assigned for a path, every later
\* successful sync of the path is a replace of the record's remote name.
C7_SameNamePerPath ==
    [][\A p \in Paths :
         HadRemoteName(p) /\ io'.path = p /\ io'.op \in Syncs /\ io'.ok =>
            /\ io'.op = "replace"
            /\ Tracked(p)
            /\ io'.name = file_states[p].remote_filename]_vars

\* C7 (amended): while a record holds a remote name, every successful sync
\* of its path is a replace of that name.
C7_SameNameWhileTracked ==
    [][\A p \in Paths :
         /\ Tracked(p)
         /\ file_states[p].remote_filename # None
         /\ io'.path = p /\ io'.op \in Syncs /\ io'.ok
         => /\ io'.op = "replace"
            /\ io'.name = file_states[p].remote_filename]_vars

C7_Witness == io.op = "replace" /\ io.ok /\ io.name \in Names

\* C8: scenario A (one event at 0, delays 10 and 600): one create, at 10, to
\* the record's remote directory; no replace; when nothing fails one local
\* delete, at 610, and the record is gone afterwards.
C8_ScenarioA ==
    scenario = "A" =>
      \A p \in Paths :
        /\ now < 10 => creates[p] = 0
        /\ now > 10 => creates[p] = 1
        /\ io.op = "create" =>
              now = 10 /\ Tracked(p) /\ io.dir = file_states[p].remote_path
        /\ replaces[p] = 0
        /\ io.op = "remove" => now = 610
        /\ removes[p] <= 1
        /\ now < 610 => removes[p] = 0
        /\ now > 610 /\ ~failed[p] => removes[p] = 1 /\ ~Tracked(p) /\ ~exists[p]

C8_Witness ==
    scenario = "A" /\ now > 610 /\ \E p \in Paths : ~failed[p] /\ removes[p] = 1

\* C9: scenario B (events at 0 and 5, upload delay 10): the check of time 10
\* sees last_modified = 5, dispatches nothing and re-arms one check for 20,
\* which dispatches the create.
C9_ScenarioB ==
    scenario = "B" =>
      \A p \in Paths :
        /\ now < 20 => creates[p] = 0
        /\ now > 20 => creates[p] = 1
        /\ io.op = "create" => now = 20
        /\ replaces[p] = 0
        /\ now > 5 /\ now <= 20 /\ Tracked(p) => file_states[p].last_modified = 5
        /\ now > 10 /\ now < 20 =>
              /\ Tracked(p)
              /\ file_states[p].upload_scheduled
              /\ timers = SetToBag({Timer(UploadFn, p, 20)})

C9_Witness == scenario = "B" /\ io.op = "create" /\ now = 20

\* C10: scenario C (upload at 10, event at 20): the event arms one upload
\* check, for 30; that check dispatches replace on the record's remote name,
\* never create, and arms a deletion check delete_delay after its fire time.
C10_ScenarioC ==
    scenario = "C" =>
      \A p \in Paths :
        /\ /\ now >= 20 /\ now < 30 /\ script = << >> /\ evt = NoEvent
            /\ HadRemoteName(p)
            => /\ Tracked(p)
               /\ file_states[p].upload_scheduled
               /\ Outstanding(UploadFn, p) = 1
               /\ BagIn(Timer(UploadFn, p, 30), timers)
        /\ io.op = "replace" =>
              /\ now = 30
              /\ Tracked(p)
              /\ io.name = file_states[p].remote_filename
              /\ ~file_states[p].upload_scheduled
              /\ BagIn(Timer(DeleteFn, p, now + delete_delay), timers)
        /\ ~failed[p] =>
              /\ io.op = "create" => now = 10
              /\ now > 10 => creates[p] = 1
              /\ now > 30 => replaces[p] = 1
              /\ now < 30 => replaces[p] = 0

C10_Witness == scenario = "C" /\ io.op = "replace" /\ now = 30

\* The timer whose callback ran in the latest step is gone and the timers in
\* `started` were started by it.
TimersBecome(fn, p, started) ==
    \E t \in BagToSet(timers) :
        /\ t.fn = fn /\ t.path = p /\ t.due <= now
        /\ timers' = (timers (-) SetToBag({t})) (+) started

\* C11 (as claimed): a successful first upload sets remote_filename to the
\* returned name and arms exactly one deletion check for the path, due
\* delete_delay seconds later.
C11_OneDeleteTimerAfterCreate ==
    [][io'.op = "create" /\ io'.ok =>
         /\ file_states'[io'.path].remote_filename = io'.name
         /\ TimersBecome(UploadFn, io'.path,
               SetToBag({Timer(DeleteFn, io'.path, now + delete_delay)}))]_vars

\* A create failed for path p and no activity event was recorded since: the
\* record has no remote name although a sync was dispatched after the latest
\* event.
PendingAfterFailedCreate(p) ==
    /\ Tracked(p)
    /\ file_states[p].remote_filename = None
    /\ burstSyncs[p] > 0

\* C12 (as claimed): a failed create leaves remote_filename None, clears
\* upload_scheduled and starts no timer; no create is attempted for the path
\* again before another activity event is recorded.
C12_NoRetryAfterFailedCreate ==
    [][/\ io'.op = "create" /\ ~io'.ok =>
             /\ file_states'[io'.path].remote_filename = None
             /\ ~file_states'[io'.path].upload_scheduled
             /\ TimersBecome(UploadFn, io'.path, EmptyBag)
       /\ io'.op = "create" => ~PendingAfterFailedCreate(io'.path)]_vars

\* C13 (as claimed): a failed os.remove leaves the record as it was and
\* starts no timer; no os.remove is attempted for the path again before
\* another activity event is recorded.
C13_NoRetryAfterFailedRemove ==
    [][/\ io'.op = "remove" /\ ~io'.ok =>
             /\ Tracked(io'.path)
             /\ file_states' = file_states
             /\ TimersBecome(DeleteFn, io'.path, EmptyBag)
       /\ io'.op = "remove" => ~removeFailed[io'.path]]_vars

\* C14 (as claimed): while upload_file, update_file or os.remove is in
\* progress no callback holds the lock, so an activity event that passed the
\* exists test can be recorded.
C14_NoLockAcrossIO ==
    inflight # NoIO =>
        /\ lock = NoTimer
        /\ evt # NoEvent => ENABLED RecordActivity

\* The event thread records the activity event it holds in this step
\* (process_file_event from the lock on).
Recorded == evt # NoEvent /\ evt' = NoEvent

\* C15: an activity event for a path without record creates one record
\* (last_modified the time of processing, remote_filename None, remote_path
\* the routed destination, upload_scheduled set), leaves the other records
\* alone and starts exactly one upload check, due upload_delay seconds later.
C15_EventOnIdlePath ==
    [][Recorded /\ ~Tracked(evt.path) =>
         /\ DOMAIN file_states' = DOMAIN file_states \cup {evt.path}
         /\ \A q \in DOMAIN file_states : file_states'[q] = file_states[q]
         /\ file_states'[evt.path] =
               [last_modified |-> now, remote_filename |-> None,
                remote_path |-> evt.remote_path, upload_scheduled |-> TRUE]
         /\ timers' = timers (+)
               SetToBag({Timer(UploadFn, evt.path, now + upload_delay)})]_vars

C15_Witness ==
    \E p \in Paths :
        /\ Tracked(p) /\ evt = NoEvent /\ creates[p] = 0 /\ now > 0
        /\ file_states[p].last_modified = now
        /\ file_states[p].remote_filename = None
        /\ file_states[p].upload_scheduled
        /\ timers = SetToBag({Timer(UploadFn, p, now + upload_delay)})

\* C16: an activity event for a tracked path whose upload_scheduled is
\* False sets last_modified to the time of processing and upload_scheduled
\* to True, starts exactly one upload check, due upload_delay seconds later,
\* and changes nothing else: remote_filename and remote_path stay.
C16_EventOnUnarmedRecord ==
    [][/\ Recorded /\ Tracked(evt.path)
       /\ ~file_states[evt.path].upload_scheduled
       => /\ file_states' = [file_states EXCEPT
                 ![evt.path].last_modified = now,
                 ![evt.path].upload_scheduled = TRUE]
          /\ timers' = timers (+)
                SetToBag({Timer(UploadFn, evt.path, now + upload_delay)})]_vars

C16_Witness ==
    \E p \in Paths :
        /\ Tracked(p) /\ evt = NoEvent /\ burstSyncs[p] = 0
        /\ file_states[p].last_modified = now
        /\ file_states[p].remote_filename \in Names
        /\ file_states[p].upload_scheduled
        /\ Outstanding(UploadFn, p) = 1
        /\ BagIn(Timer(UploadFn, p, now + upload_delay), timers)

\* The event thread takes the event at the head of the queue in this step.
Taken == queue # << >> /\ queue' = Tail(queue)

\* A FileWatcher handler is called in this step.
Watched == delivered' = delivered + 1

\* C17: an event whose file does not exist when the event is processed
\* changes no record, adds none and starts no timer, now or later: the event
\* thread drops it.
C17_MissingFileIgnored ==
    [][Taken /\ ~exists[Head(queue)[2]] =>
         /\ UNCHANGED <<file_states, timers>>
         /\ evt' = NoEvent]_vars

C17_Witness ==
    /\ delivered = 1 /\ queue = << >> /\ evt = NoEvent
    /\ ~seen.is_directory
    /\ Route(directories, seen.src_path) # None
    /\ ~exists[seen.src_path]
    /\ file_states = << >> /\ timers = EmptyBag

\* C18: a directory event handed to on_modified or on_created changes
\* neither the queue nor the records nor the timers; a non-directory event
\* appends exactly one entry, its kind and path, to the queue.
C18_DirectoryEventsDropped ==
    [][Watched =>
         /\ UNCHANGED <<file_states, timers, evt>>
         /\ seen'.kind \in {"created", "modified"}
         /\ IF seen'.is_directory
            THEN UNCHANGED queue
            ELSE queue' = Append(queue, <<seen'.kind, seen'.src_path>>)]_vars

C18_Witness ==
    /\ delivered = 2 /\ seen.is_directory
    /\ Len(queue) = 1 /\ queue[1][1] = "created"
    /\ file_states = << >> /\ timers = EmptyBag

\* The mappings of the configuration that match the path of the event taken.
Matching(file_path) ==
    {i \in DOMAIN directories : Matches(directories[i], file_path)}

\* C19 (as claimed): an event is routed to the remote directory of the
\* matching mapping with the longest root.
C19_LongestPrefixWins ==
    [][Taken /\ evt' # NoEvent =>
         \E i \in Matching(evt'.path) :
            /\ evt'.remote_path = directories[i].remote
            /\ \A j \in Matching(evt'.path) :
                  Len(abspath(directories[j].local))
                     <= Len(abspath(directories[i].local))]_vars

\* C19 (amended): an event is routed to the remote directory of the first
\* matching mapping in the order of the configuration.
C19_FirstMatchWins ==
    [][Taken /\ evt' # NoEvent =>
         \E i \in Matching(evt'.path) :
            /\ evt'.remote_path = directories[i].remote
            /\ \A j \in Matching(evt'.path) : i <= j]_vars

C19_Witness ==
    /\ evt # NoEvent /\ evt.path = "/w/s/b"
    /\ Len(directories) = 2
    /\ directories[1].local = "/w" /\ directories[2].local = "/w/s"
    /\ evt.remote_path = directories[1].remote

\* The path is the root or a descendant of it: the root's components are the
\* first components of the path.
IsUnder(file_path, root) ==
    LET f == Resolve(Components(Chars(file_path)), << >>)
        r == Resolve(Components(Chars(root)), << >>)
    IN Len(r) <= Len(f) /\ \A k \in 1..Len(r) : f[k] = r[k]

\* C20: an event is routed only to a mapping whose root its path equals or
\* lies under; an event with no such mapping is dropped: no record changes
\* and no timer is started.
C20_RoutedOnlyUnderRoot ==
    [][Taken =>
         LET file_path == Head(queue)[2] IN
         /\ evt' # NoEvent =>
               \E i \in DOMAIN directories :
                  /\ evt' = [path |-> file_path,
                             remote_path |-> directories[i].remote]
                  /\ IsUnder(file_path, directories[i].local)
         /\ (\A i \in DOMAIN directories :
                ~IsUnder(file_path, directories[i].local))
            => evt' = NoEvent /\ UNCHANGED <<file_states, timers>>]_vars

C20_Witness ==
    /\ delivered = 1 /\ queue = << >> /\ evt = NoEvent
    /\ seen.src_path = "/wx/a" /\ ~seen.is_directory /\ exists["/wx/a"]
    /\ directories[1].local = "/w"
    /\ file_states = << >> /\ timers = EmptyBag

\* The probes for the counters below k found a file or failed without
\* raising, and the probe for counter k answered 404.
First404(k) ==
    /\ k \in DOMAIN responses
    /\ responses[k] = "404"
    /\ \A j \in 1..(k - 1) : responses[j] # "404"

\* C21 (as claimed): _generate_unique_filename returns the first of the
\* names filename, Copy_2-..., Copy_3-... whose probe answered 404, and the
\* file name itself when the first probe answered 404.
C21_FirstNameAnswered404 ==
    unique_filename # NoName =>
        /\ \E k \in DOMAIN responses :
              /\ First404(k)
              /\ unique_filename =
                    IF k = 1 THEN filename
                    ELSE <<"Copy_", ToString(k), "-">> \o filename
        /\ responses[1] = "404" => unique_filename = filename

\* C22: an activity event for a tracked path whose upload_scheduled is True
\* changes only last_modified, to the time of processing: no timer is
\* started, and remote_filename, remote_path (whatever destination the event
\* carries) and upload_scheduled stay.
C22_EventOnArmedRecord ==
    [][/\ Recorded /\ Tracked(evt.path)
       /\ file_states[evt.path].upload_scheduled
       => /\ file_states' = [file_states EXCEPT
                 ![evt.path].last_modified = now]
          /\ timers' = timers]_vars

C22_Witness ==
    \E p \in Paths :
        /\ Tracked(p) /\ evt = NoEvent /\ removes[p] = 0
        /\ file_states[p].upload_scheduled
        /\ file_states[p].remote_filename \in Names
        /\ file_states[p].last_modified = now
        /\ Outstanding(UploadFn, p) = 1
        /\ \E t \in BagToSet(timers) :
              t.fn = UploadFn /\ t.due < now + upload_delay

\* The callback of timer t runs in this step: one copy of t leaves the bag
\* (a timer started in the same step is due later than t).
Fired(t) == CopiesIn(t, timers') < CopiesIn(t, timers)

\* The timers after the callback of t has run and started the timer
\* (fn, p, due).
Rearmed(t, due) ==
    timers' = (timers (-) SetToBag({t})) (+) SetToBag({Timer(t.fn, t.path, due)})

\* C23: an upload check that runs less than upload_delay seconds after
\* last_modified calls nothing, leaves the record as it is and starts exactly
\* one upload check due a full upload_delay after its own time; a deletion
\* check on a record with a remote name whose deletion condition does not
\* hold does the same with one deletion check, a full delete_delay later.
C23_FullIntervalRearm ==
    [][\A t \in BagToSet(timers) :
         Fired(t) /\ Tracked(t.path) =>
            LET st == file_states[t.path] IN
            /\ t.fn = UploadFn /\ now - st.last_modified < upload_delay =>
                  /\ io'.op = "none"
                  /\ file_states' = file_states
                  /\ Rearmed(t, now + upload_delay)
            /\ /\ t.fn = DeleteFn /\ st.remote_filename # None
               /\ ~(now - st.last_modified >= delete_delay /\ exists[t.path])
               => /\ io'.op = "none"
                  /\ file_states' = file_states
                  /\ Rearmed(t, now + delete_delay)]_vars

C23_Witness ==
    \E p \in Paths :
        /\ Tracked(p) /\ removes[p] = 0 /\ evt = NoEvent
        /\ file_states[p].upload_scheduled
        /\ file_states[p].last_modified < now
        /\ now < file_states[p].last_modified + upload_delay
        /\ timers = SetToBag({Timer(UploadFn, p, now + upload_delay)})

\* C24: an upload check on a record with a remote name, run after the quiet
\* window while the file exists, calls update_file for that name in the
\* record's remote directory; whether the call succeeds or fails, it starts
\* one deletion check due delete_delay later, clears upload_scheduled and
\* changes nothing else in the record.
C24_ReplaceThenDeleteTimer ==
    [][\A t \in BagToSet(timers) :
         /\ Fired(t) /\ t.fn = UploadFn /\ Tracked(t.path)
         /\ file_states[t.path].remote_filename # None
         /\ now - file_states[t.path].last_modified >= upload_delay
         /\ exists[t.path]
         => /\ io'.op = "replace" /\ io'.path = t.path
            /\ io'.name = file_states[t.path].remote_filename
            /\ io'.dir = file_states[t.path].remote_path
            /\ file_states' = [file_states EXCEPT
                   ![t.path].upload_scheduled = FALSE]
            /\ timers' = (timers (-) SetToBag({t})) (+)
                  SetToBag({Timer(DeleteFn, t.path, now + delete_delay)})]_vars

C24_Witness ==
    /\ io.op = "replace" /\ ~io.ok
    /\ Tracked(io.path)
    /\ file_states[io.path].remote_filename = io.name
    /\ ~file_states[io.path].upload_scheduled
    /\ BagIn(Timer(DeleteFn, io.path, now + delete_delay), timers)

\* The upload check of timer t runs in this step, after the quiet window, on
\* a record whose file is not on disk.
UploadCheckFileGone(t) ==
    /\ Fired(t) /\ t.fn = UploadFn /\ Tracked(t.path)
    /\ now - file_states[t.path].last_modified >= upload_delay
    /\ ~exists[t.path]

\* Such a check clears upload_scheduled, keeps the record, calls neither
\* upload_file nor update_file and starts no timer.
AbandonsRecord(t) ==
    /\ io'.op = "none"
    /\ file_states' = [file_states EXCEPT ![t.path].upload_scheduled = FALSE]
    /\ timers' = timers (-) SetToBag({t})

C26_StaleFiresAreNoOps ==
    [][\A t \in BagToSet(timers) :
         /\ Fired(t)
         /\ \/ ~Tracked(t.path)
            \/ t.fn = DeleteFn /\ file_states[t.path].remote_filename = None
         => /\ io'.op = "none"
            /\ file_states' = file_states
            /\ exists' = exists
            /\ timers' = timers (-) SetToBag({t})]_vars

C26_Witness ==
    \E p \in Paths :
        /\ ~Tracked(p) /\ removes[p] = 1 /\ creates[p] = 1 /\ replaces[p] = 0
        /\ ~failed[p]
        /\ timers = EmptyBag

\* C27: a record leaves file_states only in a step in which a deletion check
\* removed the local file of its path with success.
C27_RemovedOnlyAfterLocalDelete ==
    [][\A p \in Paths :
         Tracked(p) /\ p \notin DOMAIN file_states' =>
            /\ io'.op = "remove" /\ io'.ok /\ io'.path = p
            /\ exists[p] /\ ~exists'[p]]_vars

C27_Witness ==
    /\ io.op = "remove" /\ io.ok
    /\ ~Tracked(io.path) /\ removes[io.path] = 1 /\ failed[io.path]

\* C28: while a record stays in file_states, a remote_filename that is set
\* keeps its value in every step: events, update_file with either outcome,
\* failed os.remove and checks that do nothing.
C28_RemoteNameKept ==
    [][\A p \in Paths :
         /\ Tracked(p) /\ p \in DOMAIN file_states'
         /\ file_states[p].remote_filename # None
         => file_states'[p].remote_filename = file_states[p].remote_filename]_vars

C28_Witness ==
    /\ io.op = "remove" /\ ~io.ok
    /\ Tracked(io.path) /\ replaces[io.path] > 0
    /\ file_states[io.path].remote_filename \in Names

\* C29 (as claimed): a record has upload_scheduled set exactly while one
\* upload check is outstanding for its path: set, one check; clear, none.
C29_ArmedIffOneUploadTimer ==
    \A p \in Paths :
        Tracked(p) =>
            Outstanding(UploadFn, p) =
                IF file_states[p].upload_scheduled THEN 1 ELSE 0

\* C30 (as claimed): while a record stays in file_states its last_modified
\* never decreases, and it changes only in a step that records an activity
\* event for its path.
C30_LastModifiedMonotone ==
    [][\A p \in Paths :
         Tracked(p) /\ p \in DOMAIN file_states' =>
            /\ file_states'[p].last_modified >= file_states[p].last_modified
            /\ file_states'[p].last_modified # file_states[p].last_modified
                  => Recorded /\ evt.path = p]_vars

\* C31: while a callback is inside upload_file, update_file or os.remove,
\* no other step touches the records, the timers or the lock; the next step
\* that does is the rest of that callback, which completes the call it
\* entered with.  So no deletion runs during an upload and no second check
\* acts on the record the first one read.
C31_ChecksSerialized ==
    [][inflight # NoIO =>
         \/ UNCHANGED <<file_states, timers, exists, lock, inflight>>
         \/ /\ Fired(lock)
            /\ lock' = NoTimer /\ inflight' = NoIO
            /\ io'.op = inflight.op /\ io'.path = inflight.path]_vars

C31_Witness ==
    /\ inflight.op = "replace"
    /\ evt # NoEvent /\ evt.path = inflight.path
    /\ \E t \in BagToSet(timers) :
          t.fn = DeleteFn /\ t.path = inflight.path /\ t.due <= now

\* The timers of path q.
TimersOf(bag, q) ==
    [t \in {x \in BagToSet(bag) : x.path = q} |-> CopiesIn(t, bag)]

\* A step leaves every path other than p alone.
OnlyTouches(p) ==
    \A q \in WatchedPaths \ {p} :
        /\ (q \in DOMAIN file_states') = (q \in DOMAIN file_states)
        /\ q \in DOMAIN file_states => file_states'[q] = file_states[q]
        /\ TimersOf(timers', q) = TimersOf(timers, q)

\* C32: an activity event, an upload check or a deletion check for a path,
\* whatever the outcome of its call, changes only the record of that path and
\* starts timers only for that path; the records and the timers of the other
\* paths stay as they are.
C32_PerPathIsolation ==
    [][/\ Recorded => OnlyTouches(evt.path)
       /\ \A t \in BagToSet(timers) : Fired(t) => OnlyTouches(t.path)
       /\ \A x \in BagToSet(timers') :
             CopiesIn(x, timers') > CopiesIn(x, timers) =>
                \/ Recorded /\ x.path = evt.path
                \/ \E t \in BagToSet(timers) : Fired(t) /\ x.path = t.path]_vars

\* A create, a replace or a removal of one path has just failed while the
\* other path has a record with a remote name and timers of its own.
C32_Witness ==
    /\ io.op \in {"create", "replace", "remove"} /\ ~io.ok
    /\ \E q \in WatchedPaths \ {io.path} :
          /\ Tracked(q) /\ file_states[q].remote_filename # None
          /\ Outstanding(DeleteFn, q) > 0
          /\ Outstanding(UploadFn, q) > 0

\* The latest activity event of path p came while an upload check was
\* scheduled, no upload_file or update_file call has followed it, and no
\* upload check that could still make one in time is outstanding.
Overdue(p) ==
    /\ pending[p].armed
    /\ now >= pending[p].at + 2 * upload_delay
    /\ \A t \in BagToSet(timers) :
          ~(t.fn = UploadFn /\ t.path = p
            /\ t.due <= pending[p].at + 2 * upload_delay)

\* C33 (as claimed): with timers running at their due times, the upload or
\* update that follows the last activity event of a path, recorded at time L
\* while an upload check was scheduled, is made no earlier than
\* L + upload_delay and no later than L + 2 * upload_delay.
C33_UploadLatency ==
    [][/\ io'.op \in Syncs =>
             now >= file_states[io'.path].last_modified + upload_delay
       /\ \A p \in Paths : ~Overdue(p)']_vars

\* No activity event was ever recorded for path p and none waits.
Untouched(p) == ~Tracked(p) /\ creates[p] = 0 /\ evt = NoEvent

\* A timer is due after the last instant explored.
BeyondHorizon == \E t \in BagToSet(timers) : t.due > MaxTime

\* The file of path p is deleted, its record is removed and no timer is
\* outstanding for it.
CleanedUp(p) ==
    /\ ~exists[p]
    /\ ~Tracked(p)
    /\ \A t \in BagToSet(timers) : t.path # p

\* C34 (as claimed): when the activity events of a path stop, every
\* upload_file, update_file and os.remove call succeeds and nothing but the
\* daemon removes the file, then under fair scheduling the file is eventually
\* deleted, the record removed and no timer left for the path.
C34_EventualCleanup ==
    <>[](evt = NoEvent) =>
        \A p \in Paths :
            <>[](failed[p] \/ BeyondHorizon \/ Untouched(p) \/ CleanedUp(p))

\* C35 (as claimed): when the activity events stop and nothing but the daemon
\* removes the file, every recorded activity event of a path is eventually
\* followed by an upload_file or update_file call for that path.
C35_NoLostModification ==
    <>[](evt = NoEvent) =>
        \A p \in Paths : <>[](pending[p] = NoPending \/ BeyondHorizon)

\* Number of deletion checks for path p in a bag of timers.
DeleteChecks(bag, p) ==
    LET ts == {t \in BagToSet(bag) : t.fn = DeleteFn /\ t.path = p}
        RECURSIVE Sum(_)
        Sum(S) == IF S = {} THEN 0
                  ELSE LET t == CHOOSE x \in S : TRUE
                       IN CopiesIn(t, bag) + Sum(S \ {t})
    IN Sum(ts)

\* C36 (as claimed): modify -> replace cycles on an uploaded file do not
\* accumulate deletion checks: the deletion check started after an
\* update_file call does not add to deletion checks already outstanding for
\* the path, so their number stays within a constant.
C36_DeleteTimersDoNotAccumulate ==
    [][io'.op = "replace" =>
         LET before == DeleteChecks(timers, io'.path)
         IN DeleteChecks(timers', io'.path) <= IF before > 1 THEN before ELSE 1]_vars

\* C37 (as claimed): when the file of an uploaded path has disappeared by
\* other means, no further events arrive and no upload check is left, the
\* deletion checks of the path eventually stop being re-armed: eventually no
\* timer is outstanding for the path.
C37_NoStuckTimers ==
    \A p \in Paths :
        <>[](/\ evt = NoEvent
             /\ ~exists[p] /\ removes[p] = 0
             /\ Outstanding(UploadFn, p) = 0)
        => <>[](Outstanding(DeleteFn, p) = 0)

\* C38 (as claimed): whatever the server answers to the probes, a call of
\* _generate_unique_filename returns a name after finitely many probes.
C38_NameEventuallyReturned == <>(unique_filename # NoName)

====
